---- MODULE Spec2Model ----
(***************************************************************************)
(* Half-Life Regression model of services/hlr-sidecar/main.py (HLRModel).  *)
(*                                                                         *)
(* Python floats are modelled as binary floating-point numbers with the    *)
(* exponent range of IEEE-754 binary64 and a significand of Prec bits:     *)
(* s * m * 2^e with 2^(Prec-1) <= m < 2^Prec, plus +inf, -inf and NaN.     *)
(* Arithmetic rounds to nearest (ties to even), overflows to an infinity,  *)
(* and follows Python where Python departs from IEEE (x / 0 and an         *)
(* overflowing ** raise).                                                  *)
(***************************************************************************)
EXTENDS Integers, Sequences, FiniteSets, TLC

\* ------------------------------------------------------------------------
\* float
\* ------------------------------------------------------------------------

Prec == 14
\* a finite float is below 2^EMax in magnitude; the smallest positive one is 2^EMinSub
EMax == 1024
EMinSub == -1074

NaN == [k |-> "nan", s |-> 1, m |-> 0, e |-> 0]
PInf == [k |-> "inf", s |-> 1, m |-> 0, e |-> 0]
NInf == [k |-> "inf", s |-> -1, m |-> 0, e |-> 0]
Zero == [k |-> "fin", s |-> 1, m |-> 0, e |-> 0]

Inf(s) == IF s = 1 THEN PInf ELSE NInf

IsNaN(x) == x.k = "nan"
IsInf(x) == x.k = "inf"
IsFin(x) == x.k = "fin"
IsZero(x) == x.k = "fin" /\ x.m = 0

\* the number of bits of the natural number n
RECURSIVE BitLen(_)
BitLen(n) == IF n = 0 THEN 0 ELSE 1 + BitLen(n \div 2)

\* a normalised significand and exponent, overflowing to inf and underflowing to 0.0
Pack(s, m, e) ==
    IF e + Prec > EMax THEN Inf(s)
    ELSE IF e + Prec - 1 < EMinSub THEN Zero
    ELSE [k |-> "fin", s |-> s, m |-> m, e |-> e]

\* the float nearest to s * m * 2^e (m a natural number), ties to even
Round(s, m, e) ==
    IF m = 0 THEN Zero
    ELSE LET b == BitLen(m) IN
         IF b <= Prec
         THEN Pack(s, m * 2^(Prec - b), e - (Prec - b))
         ELSE LET sh == b - Prec
                  q == m \div 2^sh
                  r == m % 2^sh
                  half == 2^(sh - 1)
                  q2 == IF r > half \/ (r = half /\ q % 2 = 1) THEN q + 1 ELSE q
              IN IF q2 = 2^Prec
                 THEN Pack(s, 2^(Prec - 1), e + sh + 1)
                 ELSE Pack(s, q2, e + sh)

\* float(n) for an int n
FromInt(n) == IF n < 0 THEN Round(-1, -n, 0) ELSE Round(1, n, 0)

FNeg(x) == IF IsNaN(x) \/ IsZero(x) THEN x ELSE [x EXCEPT !.s = -x.s]

\* -1, 0, 1 as x < y, x = y, x > y, for x and y not NaN
Cmp(x, y) ==
    LET sx == IF IsZero(x) THEN 0 ELSE x.s
        sy == IF IsZero(y) THEN 0 ELSE y.s
        \* magnitude comparison of two non-zero values of the same sign
        mag == IF IsInf(x) THEN (IF IsInf(y) THEN 0 ELSE 1)
               ELSE IF IsInf(y) THEN -1
               ELSE IF x.e # y.e THEN (IF x.e > y.e THEN 1 ELSE -1)
               ELSE IF x.m # y.m THEN (IF x.m > y.m THEN 1 ELSE -1)
               ELSE 0
    IN IF sx # sy THEN (IF sx > sy THEN 1 ELSE -1)
       ELSE IF sx = 0 THEN 0
       ELSE sx * mag

\* every comparison with a NaN is False
FLt(x, y) == ~IsNaN(x) /\ ~IsNaN(y) /\ Cmp(x, y) < 0
FGt(x, y) == ~IsNaN(x) /\ ~IsNaN(y) /\ Cmp(x, y) > 0
FLe(x, y) == ~IsNaN(x) /\ ~IsNaN(y) /\ Cmp(x, y) <= 0
FGe(x, y) == ~IsNaN(x) /\ ~IsNaN(y) /\ Cmp(x, y) >= 0

\* x + y
FAdd(x, y) ==
    IF IsNaN(x) \/ IsNaN(y) THEN NaN
    ELSE IF IsInf(x) THEN (IF IsInf(y) /\ y.s # x.s THEN NaN ELSE x)
    ELSE IF IsInf(y) THEN y
    ELSE IF IsZero(x) THEN y
    ELSE IF IsZero(y) THEN x
    ELSE LET hi == IF x.e >= y.e THEN x ELSE y
             lo == IF x.e >= y.e THEN y ELSE x
             d == hi.e - lo.e
         IN IF d > Prec + 1 THEN hi
            ELSE LET v == hi.s * hi.m * 2^d + lo.s * lo.m
                 IN IF v < 0 THEN Round(-1, -v, lo.e) ELSE Round(1, v, lo.e)

FSub(x, y) == FAdd(x, FNeg(y))

\* x * y
FMul(x, y) ==
    IF IsNaN(x) \/ IsNaN(y) THEN NaN
    ELSE IF IsInf(x) \/ IsInf(y)
         THEN (IF IsZero(x) \/ IsZero(y) THEN NaN ELSE Inf(x.s * y.s))
    ELSE IF IsZero(x) \/ IsZero(y) THEN Zero
    ELSE Round(x.s * y.s, x.m * y.m, x.e + y.e)

\* x / y raises ZeroDivisionError
DivRaises(x, y) == IsZero(y)

\* x / y for y # 0.0
FDiv(x, y) ==
    IF IsNaN(x) \/ IsNaN(y) THEN NaN
    ELSE IF IsInf(x) THEN (IF IsInf(y) THEN NaN ELSE Inf(x.s * y.s))
    ELSE IF IsInf(y) \/ IsZero(x) THEN Zero
    ELSE LET n == x.m * 2^Prec
             q == n \div y.m
             st == IF n % y.m = 0 THEN 0 ELSE 1
         IN Round(x.s * y.s, 4 * q + st, x.e - y.e - Prec - 2)

\* the rational p / q (q > 0), as the float literal closest to it
Lit(p, q) == FDiv(FromInt(p), FromInt(q))

RECURSIVE ISqrtIn(_, _, _)
ISqrtIn(n, lo, hi) ==
    IF lo >= hi THEN lo
    ELSE LET mid == (lo + hi + 1) \div 2
         IN IF mid * mid <= n THEN ISqrtIn(n, mid, hi) ELSE ISqrtIn(n, lo, mid - 1)

\* math.sqrt(x) for x >= 0
Sqrt(x) ==
    IF IsNaN(x) \/ IsInf(x) \/ IsZero(x) THEN x
    ELSE LET sh == IF (x.e - (Prec + 1)) % 2 = 0 THEN Prec + 1 ELSE Prec + 2
             n == x.m * 2^sh
             r == ISqrtIn(n, 0, 2^(Prec + 1))
             st == IF r * r = n THEN 0 ELSE 1
         IN Round(1, 4 * r + st, ((x.e - sh) \div 2) - 2)

\* 2^(2^-i) for i in 1..Prec, by repeated square roots
RECURSIVE RootOfTwo(_)
RootOfTwo(i) == IF i = 0 THEN FromInt(2) ELSE Sqrt(RootOfTwo(i - 1))

RootTable == [i \in 1..Prec |-> RootOfTwo(i)]

\* 2^(f / 2^Prec) for 0 <= f < 2^Prec: the product of the roots at the set bits of f
RECURSIVE Exp2Frac(_, _)
Exp2Frac(f, i) ==
    IF f = 0 \/ i > Prec THEN FromInt(1)
    ELSE LET bit == 2^(Prec - i)
         IN IF f >= bit
            THEN FMul(RootTable[i], Exp2Frac(f - bit, i + 1))
            ELSE Exp2Frac(f, i + 1)

\* 2.0 ** y raises OverflowError
Exp2Raises(y) == IsFin(y) /\ FGe(y, FromInt(EMax))

\* 2.0 ** y when it does not raise
Exp2(y) ==
    IF IsNaN(y) THEN NaN
    ELSE IF IsInf(y) THEN (IF y.s = 1 THEN PInf ELSE Zero)
    ELSE IF IsZero(y) THEN FromInt(1)
    ELSE IF FLt(y, FromInt(EMinSub - 1)) THEN Zero
    ELSE IF FGe(y, FromInt(EMax)) THEN PInf
    ELSE IF -y.e > 2 * Prec THEN FromInt(1)
    ELSE LET sh == -y.e
             ip == y.m \div 2^sh
             fp == y.m % 2^sh
             \* the fraction of |y| in units of 2^-Prec
             fr == IF sh <= Prec THEN fp * 2^(Prec - sh) ELSE fp \div 2^(sh - Prec)
             n == IF y.s = 1 THEN ip ELSE IF fr = 0 THEN -ip ELSE -ip - 1
             f == IF y.s = 1 \/ fr = 0 THEN fr ELSE 2^Prec - fr
             g == Exp2Frac(f, 1)
         IN Pack(1, g.m, g.e + n)

\* the Prec fraction bits of log2(z / 2^(Prec-1)) for 2^(Prec-1) <= z < 2^Prec
RECURSIVE Log2Frac(_, _, _)
Log2Frac(z, i, acc) ==
    IF i > Prec THEN acc
    ELSE LET sq == (z * z) \div 2^(Prec - 1)
         IN IF sq >= 2^Prec
            THEN Log2Frac(sq \div 2, i + 1, 2 * acc + 1)
            ELSE Log2Frac(sq, i + 1, 2 * acc)

\* math.log2(x) raises ValueError
Log2Raises(x) == ~IsNaN(x) /\ FLe(x, Zero)

\* math.log2(x) for x > 0
Log2(x) ==
    IF IsNaN(x) \/ IsInf(x) THEN x
    ELSE LET v == (x.e + Prec - 1) * 2^Prec + Log2Frac(x.m, 1, 0)
         IN IF v < 0 THEN Round(-1, -v, -Prec) ELSE Round(1, v, -Prec)

\* Python's two-argument max and min: the first argument unless the second is
\* strictly greater (smaller)
PyMax(a, b) == IF FGt(b, a) THEN b ELSE a
PyMin(a, b) == IF FLt(b, a) THEN b ELSE a

\* float | None: the absent optional argument
None == [k |-> "none", s |-> 1, m |-> 0, e |-> 0]

\* ------------------------------------------------------------------------
\* HLR core
\* ------------------------------------------------------------------------

MIN_HALF_LIFE == FDiv(FromInt(15), FromInt(24 * 60))
MAX_HALF_LIFE == FromInt(274)
LN2 == Lit(693147, 1000000)

P_MIN == Lit(1, 10000)
P_MAX == Lit(9999, 10000)

pclip(p) == PyMin(PyMax(p, P_MIN), P_MAX)

hclip(h) == PyMin(PyMax(h, MIN_HALF_LIFE), MAX_HALF_LIFE)

\* a dict with no entries
EmptyDict == [k \in {} |-> Zero]

\* the names of a feature vector
NamesOf(features) == {features[i][1] : i \in 1..Len(features)}

\* d[k] on a defaultdict: the stored value, or the default
Get(d, k, default) == IF k \in DOMAIN d THEN d[k] ELSE default

\* the defaultdict after d[k] was read for every k of keys: a missing key is
\* inserted with the default
Vivify(d, keys, default) == [k \in DOMAIN d \cup keys |-> Get(d, k, default)]

\* the dict d with d[k] = v
Put(d, k, v) == [j \in DOMAIN d \cup {k} |-> IF j = k THEN v ELSE d[j]]

\* sum(self.weights[k] * x_k for k, x_k in features), from the i-th feature on
RECURSIVE DotFrom(_, _, _, _)
DotFrom(w, features, i, acc) ==
    IF i > Len(features) THEN acc
    ELSE DotFrom(w, features, i + 1,
                 FAdd(acc, FMul(Get(w, features[i][1], Zero), features[i][2])))

\* base ** y for a base that is a power of two: 2 ** (y * log2(base))
PowRaises(base, y) == Exp2Raises(FMul(y, Log2(base)))
Pow(base, y) == Exp2(FMul(y, Log2(base)))

\* hclip(base ** dp), or MAX_HALF_LIFE when base ** dp raises OverflowError
halflifeOf(dp, base) ==
    IF PowRaises(base, dp) THEN MAX_HALF_LIFE ELSE hclip(Pow(base, dp))

halflife(w, features, base) == halflifeOf(DotFrom(w, features, 1, Zero), base)

\* lines 124-125 of predict, from the half-life h: the pair returned and the
\* exception raised, or "none"
recallOf(h, delta_days) ==
    LET q == FDiv(FNeg(delta_days), h)
    IN [p |-> pclip(Exp2(q)), h |-> h,
        raised |-> IF DivRaises(FNeg(delta_days), h) THEN "ZeroDivisionError"
                   ELSE IF Exp2Raises(q) THEN "OverflowError"
                   ELSE "none"]

\* the recall computed with the base of the half-life
predict_RecallWithBase(w, features, delta_days, base) ==
    LET h == halflife(w, features, base)
        q == FDiv(FNeg(delta_days), h)
    IN [p |-> pclip(Pow(base, q)), h |-> h,
        raised |-> IF DivRaises(FNeg(delta_days), h) THEN "ZeroDivisionError"
                   ELSE IF PowRaises(base, q) THEN "OverflowError"
                   ELSE "none"]

\* predict: the pair it returns and the exception it raises, or "none"; reading
\* self.weights[k] also inserts the missing names into the weights (see Vivify)
predict(w, features, delta_days, base) == recallOf(halflife(w, features, base), delta_days)

\* the per-feature step size of train_update, for a feature updated count times
Rate(hp, actual_recall, count) ==
    FDiv(FMul(FDiv(FromInt(1), FAdd(FromInt(1), actual_recall)), hp.lrate),
         Sqrt(FromInt(1 + count)))

\* self.weights[k] -= rate * dlp_dw * x_k, on the weight wk read
SubRecallTerm(wk, rate, dlp_dw, x_k) == FSub(wk, FMul(FMul(rate, dlp_dw), x_k))

\* self.weights[k] -= rate * self.hlwt * dlh_dw * x_k, on the weight wk read
SubHalfLifeTerm(hp, wk, rate, dlh_dw, x_k) ==
    FSub(wk, FMul(FMul(FMul(rate, hp.hlwt), dlh_dw), x_k))

\* self.weights[k] -= rate * self.l2wt * self.weights[k] / self.sigma**2, on the
\* weight wk read for the target and the weight wk2 read for the right-hand side
SubL2Term(hp, wk, wk2, rate) ==
    FSub(wk, FDiv(FMul(FMul(rate, hp.l2wt), wk2), FMul(hp.sigma, hp.sigma)))

\* one iteration of the loop of train_update, on the weight wk and the count ck
\* of the feature
StepWeight(hp, wk, ck, x_k, actual_recall, dlp_dw, dlh_dw) ==
    LET rate == Rate(hp, actual_recall, ck)
        w1 == SubRecallTerm(wk, rate, dlp_dw, x_k)
        w2 == IF hp.omit_h_term THEN w1
              ELSE SubHalfLifeTerm(hp, w1, rate, dlh_dw, x_k)
    IN SubL2Term(hp, w2, w2, rate)

\* self.fcounts[k] = 1
StepCount_Assign(ck) == 1

\* the increment left out
StepCount_Skip(ck) == ck

StepCount(ck) == ck + 1

\* the loop of train_update from the i-th feature on: the weights and the counts
RECURSIVE TrainLoop(_, _, _, _, _, _, _, _)
TrainLoop(hp, w, c, features, i, actual_recall, dlp_dw, dlh_dw) ==
    IF i > Len(features) THEN [w |-> w, c |-> c, raised |-> "none"]
    ELSE LET k == features[i][1]
             ck == Get(c, k, 0)
             wk == StepWeight(hp, Get(w, k, Zero), ck, features[i][2],
                              actual_recall, dlp_dw, dlh_dw)
         IN TrainLoop(hp, Put(w, k, wk), Put(c, k, StepCount(ck)), features, i + 1,
                      actual_recall, dlp_dw, dlh_dw)

\* actual_half_life is estimated from the recall
Derives(delta_days, actual_recall, actual_half_life) ==
    /\ actual_half_life = None
    /\ FGt(actual_recall, P_MIN)
    /\ FGt(delta_days, Zero)

\* lines 146-154 of train_update, from the pair ph of predict: the exception
\* raised, or "none", and the gradient coefficients
Gradients(ph, delta_days, actual_recall, actual_half_life) ==
    LET derives == Derives(delta_days, actual_recall, actual_half_life)
        lg == Log2(actual_recall)
        ahl == IF actual_half_life # None THEN actual_half_life
               ELSE IF derives THEN hclip(FDiv(FNeg(delta_days), lg))
               ELSE ph.h
        raised == IF ph.raised # "none" THEN ph.raised
                  ELSE IF ~derives THEN "none"
                  ELSE IF Log2Raises(actual_recall) THEN "ValueError"
                  ELSE IF DivRaises(FNeg(delta_days), lg) THEN "ZeroDivisionError"
                  ELSE "none"
    IN IF raised # "none"
       THEN [raised |-> raised, dlp_dw |-> Zero, dlh_dw |-> Zero]
       ELSE [raised |-> "none",
             dlp_dw |-> FMul(FMul(FMul(FMul(FromInt(2), FSub(ph.p, actual_recall)),
                                       FMul(LN2, LN2)), ph.p),
                             FDiv(delta_days, ph.h)),
             dlh_dw |-> FMul(FMul(FMul(FromInt(2), FSub(ph.h, ahl)), LN2), ph.h)]

\* train_update: the weights and the counts it leaves behind and the exception
\* it raises, or "none"
train_update(hp, w, c, features, delta_days, actual_recall, actual_half_life) ==
    LET w0 == Vivify(w, NamesOf(features), Zero)
        g == Gradients(predict(w, features, delta_days, FromInt(2)), delta_days,
                       actual_recall, actual_half_life)
    IN IF g.raised # "none"
       THEN [w |-> w0, c |-> c, raised |-> g.raised]
       ELSE TrainLoop(hp, w0, c, features, 1, actual_recall, g.dlp_dw, g.dlh_dw)

\* dict(self.weights)
get_weights(w) == [k \in DOMAIN w |-> w[k]]

\* d.update(m)
Update(d, m) == [k \in DOMAIN d \cup DOMAIN m |-> IF k \in DOMAIN m THEN m[k] ELSE d[k]]

\* the update left out
load_weights_NoUpdate(w, c, m) == [w |-> EmptyDict, c |-> c]

\* the weights updated in place, the old entries kept
load_weights_Merge(w, c, m) == [w |-> Update(w, m), c |-> c]

\* the counts reset with the weights
load_weights_ResetCounts(w, c, m) == [w |-> Update(EmptyDict, m), c |-> EmptyDict]

\* the weights and the counts load_weights leaves behind: a fresh defaultdict
\* updated with m, and the counts as they were
load_weights(w, c, m) == [w |-> Update(EmptyDict, m), c |-> c]

\* ------------------------------------------------------------------------
\* inputs
\* ------------------------------------------------------------------------

MaxOps == 2

\* sys.float_info.max
FloatMax == [k |-> "fin", s |-> 1, m |-> 2^Prec - 1, e |-> EMax - Prec]

Names == {"a", "b"}

\* the empty vector, one feature, one name twice, two names
FeatureVecs == {<<>>,
                <<<<"a", FromInt(1)>>>>,
                <<<<"a", FromInt(1)>>, <<"a", FromInt(1)>>>>,
                <<<<"a", FromInt(2)>>, <<"b", FromInt(2)>>>>}
Deltas == {Zero, FromInt(1)}
Bases == {FromInt(2), FromInt(4)}

\* what train_update is told: the half-life estimated from the recall, a recall
\* of exactly 1, no elapsed time and a recall of exactly 0, a recall of exactly 0,
\* the half-life supplied
Observations ==
    {[delta_days |-> FromInt(1), actual_recall |-> Lit(9, 10), actual_half_life |-> None],
     [delta_days |-> FromInt(1), actual_recall |-> FromInt(1), actual_half_life |-> None],
     [delta_days |-> Zero, actual_recall |-> Zero, actual_half_life |-> None],
     [delta_days |-> FromInt(1), actual_recall |-> Zero, actual_half_life |-> None],
     [delta_days |-> FromInt(1), actual_recall |-> Lit(9, 10),
      actual_half_life |-> FromInt(2)]}

\* initial_weights of the constructor: None, or a supplied dict
InitialWeights == {EmptyDict, "a" :> Lit(1, 2)}

\* the dicts load_weights is given
WeightMaps == {EmptyDict,
               "a" :> Lit(1, 2),
               "a" :> FloatMax @@ "b" :> FNeg(FloatMax)}

\* Settings: the default hyper-parameters, HLR_OMIT_H_TERM either way
Hypers == {[omit_h_term |-> o, lrate |-> Lit(1, 1000), hlwt |-> Lit(1, 100),
            l2wt |-> Lit(1, 10), sigma |-> FromInt(1)] : o \in BOOLEAN}

\* ------------------------------------------------------------------------
\* state
\* ------------------------------------------------------------------------

VARIABLES
    weights,    \* HLRModel.weights, a defaultdict(float): its keys and their values
    fcounts,    \* HLRModel.fcounts, a defaultdict(int)
    hyper,      \* omit_h_term, lrate, hlwt, l2wt, sigma
    snapshot,   \* the dict the caller got from the last get_weights
    touched,    \* history: the names the loop of train_update has processed
    last,       \* history: the last call, its arguments, its result, the state before it
    nops,       \* the number of calls made
    serialized, \* the runtime runs one call at a time
    thr         \* the train_update call of each thread: its position and its locals

vars == <<weights, fcounts, hyper, snapshot, touched, last, nops, serialized, thr>>

NoCall == [op |-> "init", prev |-> "init", features |-> <<>>, delta_days |-> Zero,
           base |-> FromInt(2), actual_recall |-> Zero, actual_half_life |-> None,
           m |-> EmptyDict, ret |-> [p |-> Zero, h |-> Zero], raised |-> "none",
           w0 |-> EmptyDict, c0 |-> EmptyDict, hyper0 |-> CHOOSE h \in Hypers : TRUE]

Threads == {"t1", "t2"}

Idle == [pc |-> "idle", features |-> <<>>, delta_days |-> Zero, actual_recall |-> Zero,
         actual_half_life |-> None, i |-> 1, acc |-> Zero, rate |-> Zero,
         dlp_dw |-> Zero, dlh_dw |-> Zero, wk |-> Zero, wk2 |-> Zero, ck |-> 0]

\* HLRModel.__init__
Init ==
    /\ \E iw \in InitialWeights : weights = Update(EmptyDict, iw)
    /\ fcounts = EmptyDict
    /\ hyper \in Hypers
    /\ snapshot = EmptyDict
    /\ touched = {}
    /\ last = [NoCall EXCEPT !.w0 = weights, !.hyper0 = hyper]
    /\ nops = 0
    /\ serialized = TRUE
    /\ thr = [t \in Threads |-> Idle]

Called(op) == [NoCall EXCEPT !.op = op, !.prev = last.op, !.w0 = weights,
                             !.c0 = fcounts, !.hyper0 = hyper]

\* model.predict(features, delta_days, base)
Predict(features, delta_days, base) ==
    LET r == predict(weights, features, delta_days, base)
    IN /\ nops < MaxOps
       /\ weights' = Vivify(weights, NamesOf(features), Zero)
       /\ last' = [Called("predict") EXCEPT
                       !.features = features, !.delta_days = delta_days, !.base = base,
                       !.raised = r.raised, !.ret = [p |-> r.p, h |-> r.h]]
       /\ nops' = nops + 1
       /\ UNCHANGED <<fcounts, hyper, snapshot, touched, serialized, thr>>

\* model.train_update(features, delta_days, actual_recall, actual_half_life); the
\* predict call the handler makes after it finds every name in the weights and
\* changes nothing
TrainUpdate(features, delta_days, actual_recall, actual_half_life) ==
    LET r == train_update(hyper, weights, fcounts, features, delta_days,
                          actual_recall, actual_half_life)
        raised == r.raised
    IN /\ nops < MaxOps
       /\ weights' = r.w
       /\ fcounts' = r.c
       /\ touched' = IF raised = "none" THEN touched \cup NamesOf(features) ELSE touched
       /\ last' = [Called("train_update") EXCEPT
                       !.features = features, !.delta_days = delta_days,
                       !.actual_recall = actual_recall,
                       !.actual_half_life = actual_half_life, !.raised = raised]
       /\ nops' = nops + 1
       /\ UNCHANGED <<hyper, snapshot, serialized, thr>>

\* model.get_weights()
GetWeights ==
    /\ nops < MaxOps
    /\ snapshot' = get_weights(weights)
    /\ last' = [Called("get_weights") EXCEPT !.m = get_weights(weights)]
    /\ nops' = nops + 1
    /\ UNCHANGED <<weights, fcounts, hyper, touched, serialized, thr>>

\* model.load_weights(m)
LoadWeights(m) ==
    LET r == load_weights(weights, fcounts, m)
    IN /\ nops < MaxOps
       /\ weights' = r.w
       /\ fcounts' = r.c
       /\ last' = [Called("load_weights") EXCEPT !.m = m]
       /\ nops' = nops + 1
       /\ UNCHANGED <<hyper, snapshot, touched, serialized, thr>>

\* the caller loads the dict the last get_weights returned
RestoreWeights == LoadWeights(snapshot)

Next ==
    \/ \E f \in FeatureVecs, d \in Deltas, b \in Bases : Predict(f, d, b)
    \/ \E f \in FeatureVecs, o \in Observations :
          TrainUpdate(f, o.delta_days, o.actual_recall, o.actual_half_life)
    \/ GetWeights
    \/ \E m \in WeightMaps : LoadWeights(m)
    \/ RestoreWeights

Spec == Init /\ [][Next]_vars

\* ------------------------------------------------------------------------
\* two train_update calls on the shared model, one thread each, stepping from
\* one read or write of self.weights[k] or self.fcounts[k] to the next
\* ------------------------------------------------------------------------

Running(t) == thr[t].pc \notin {"idle", "done", "raised"}

Model == <<weights, fcounts>>
History == <<snapshot, touched, last, nops>>

InitRace ==
    /\ weights = EmptyDict
    /\ fcounts = EmptyDict
    /\ hyper \in Hypers
    /\ snapshot = EmptyDict
    /\ touched = {}
    /\ last = [NoCall EXCEPT !.hyper0 = hyper]
    /\ nops = 0
    /\ serialized \in BOOLEAN
    /\ thr = [t \in Threads |-> Idle]

\* the pc after the i-th feature is done, or before the first
LoopAt(features, i) == IF i > Len(features) THEN "done" ELSE "rate"

\* the handler calls model.train_update; a serialized runtime starts a call only
\* when no other call is running
Call(t, features, o) ==
    /\ thr[t].pc = "idle"
    /\ serialized => \A u \in Threads \ {t} : ~Running(u)
    /\ thr' = [thr EXCEPT ![t] = [Idle EXCEPT !.pc = "sum", !.features = features,
                                              !.delta_days = o.delta_days,
                                              !.actual_recall = o.actual_recall,
                                              !.actual_half_life = o.actual_half_life]]
    /\ UNCHANGED <<Model, hyper, History, serialized>>

\* line 104: one term of the sum reads self.weights[k]
Sum(t) ==
    LET c == thr[t]
        k == c.features[c.i][1]
    IN /\ c.pc = "sum"
       /\ c.i <= Len(c.features)
       /\ weights' = Vivify(weights, {k}, Zero)
       /\ thr' = [thr EXCEPT ![t].acc = FAdd(c.acc, FMul(Get(weights, k, Zero),
                                                         c.features[c.i][2])),
                             ![t].i = c.i + 1]
       /\ UNCHANGED <<fcounts, hyper, History, serialized>>

\* lines 105-154: the prediction and the gradient coefficients, or the exception
Grad(t) ==
    LET c == thr[t]
        g == Gradients(recallOf(halflifeOf(c.acc, FromInt(2)), c.delta_days),
                       c.delta_days, c.actual_recall, c.actual_half_life)
    IN /\ c.pc = "sum"
       /\ c.i > Len(c.features)
       /\ thr' = [thr EXCEPT ![t].pc = IF g.raised # "none" THEN "raised"
                                       ELSE LoopAt(c.features, 1),
                             ![t].i = 1,
                             ![t].dlp_dw = g.dlp_dw,
                             ![t].dlh_dw = g.dlh_dw]
       /\ UNCHANGED <<Model, hyper, History, serialized>>

\* lines 157-161: the rate reads self.fcounts[k]
ReadRate(t) ==
    LET c == thr[t]
        k == c.features[c.i][1]
    IN /\ c.pc = "rate"
       /\ fcounts' = Vivify(fcounts, {k}, 0)
       /\ thr' = [thr EXCEPT ![t].pc = "load_p",
                             ![t].rate = Rate(hyper, c.actual_recall, Get(fcounts, k, 0))]
       /\ UNCHANGED <<weights, hyper, History, serialized>>

\* the thread t after it read self.weights[k] into its local wk
Loaded(t, to) ==
    [thr EXCEPT ![t].pc = to,
                ![t].wk = Get(weights, thr[t].features[thr[t].i][1], Zero)]

\* line 163: self.weights[k] -= rate * dlp_dw * x_k, the read
LoadRecallTerm(t) ==
    /\ thr[t].pc = "load_p"
    /\ weights' = Vivify(weights, {thr[t].features[thr[t].i][1]}, Zero)
    /\ thr' = Loaded(t, "store_p")
    /\ UNCHANGED <<fcounts, hyper, History, serialized>>

\* line 163, the write
StoreRecallTerm(t) ==
    LET c == thr[t]
    IN /\ c.pc = "store_p"
       /\ weights' = Put(weights, c.features[c.i][1],
                         SubRecallTerm(c.wk, c.rate, c.dlp_dw, c.features[c.i][2]))
       /\ thr' = [thr EXCEPT ![t].pc = IF hyper.omit_h_term THEN "load_l2" ELSE "load_h"]
       /\ UNCHANGED <<fcounts, hyper, History, serialized>>

\* lines 165-166: self.weights[k] -= rate * self.hlwt * dlh_dw * x_k, the read
LoadHalfLifeTerm(t) ==
    /\ thr[t].pc = "load_h"
    /\ weights' = Vivify(weights, {thr[t].features[thr[t].i][1]}, Zero)
    /\ thr' = Loaded(t, "store_h")
    /\ UNCHANGED <<fcounts, hyper, History, serialized>>

\* lines 165-166, the write
StoreHalfLifeTerm(t) ==
    LET c == thr[t]
    IN /\ c.pc = "store_h"
       /\ weights' = Put(weights, c.features[c.i][1],
                         SubHalfLifeTerm(hyper, c.wk, c.rate, c.dlh_dw,
                                         c.features[c.i][2]))
       /\ thr' = [thr EXCEPT ![t].pc = "load_l2"]
       /\ UNCHANGED <<fcounts, hyper, History, serialized>>

\* line 168: self.weights[k] -= rate * self.l2wt * self.weights[k] / self.sigma**2,
\* the read of the target
LoadL2Target(t) ==
    /\ thr[t].pc = "load_l2"
    /\ weights' = Vivify(weights, {thr[t].features[thr[t].i][1]}, Zero)
    /\ thr' = Loaded(t, "load_l2_rhs")
    /\ UNCHANGED <<fcounts, hyper, History, serialized>>

\* line 168, the read on the right-hand side
LoadL2Operand(t) ==
    /\ thr[t].pc = "load_l2_rhs"
    /\ weights' = Vivify(weights, {thr[t].features[thr[t].i][1]}, Zero)
    /\ thr' = [thr EXCEPT ![t].pc = "store_l2",
                          ![t].wk2 = Get(weights, thr[t].features[thr[t].i][1], Zero)]
    /\ UNCHANGED <<fcounts, hyper, History, serialized>>

\* line 168, the write
StoreL2Term(t) ==
    LET c == thr[t]
    IN /\ c.pc = "store_l2"
       /\ weights' = Put(weights, c.features[c.i][1],
                         SubL2Term(hyper, c.wk, c.wk2, c.rate))
       /\ thr' = [thr EXCEPT ![t].pc = "load_c"]
       /\ UNCHANGED <<fcounts, hyper, History, serialized>>

\* line 169: self.fcounts[k] += 1, the read
LoadCount(t) ==
    LET c == thr[t]
        k == c.features[c.i][1]
    IN /\ c.pc = "load_c"
       /\ fcounts' = Vivify(fcounts, {k}, 0)
       /\ thr' = [thr EXCEPT ![t].pc = "store_c", ![t].ck = Get(fcounts, k, 0)]
       /\ UNCHANGED <<weights, hyper, History, serialized>>

\* line 169, the write
StoreCount(t) ==
    LET c == thr[t]
        k == c.features[c.i][1]
    IN /\ c.pc = "store_c"
       /\ fcounts' = Put(fcounts, k, StepCount(c.ck))
       /\ thr' = [thr EXCEPT ![t].pc = LoopAt(c.features, c.i + 1), ![t].i = c.i + 1]
       /\ UNCHANGED <<weights, hyper, History, serialized>>

\* the feature vectors of the two calls: one feature, two features
RaceVecs == {f \in FeatureVecs : Len(f) >= 1 /\ Cardinality(NamesOf(f)) = Len(f)}

\* what the two calls are told: the half-life is estimated from the recall
RaceObservations ==
    {o \in Observations : o.actual_half_life = None /\ FGt(o.actual_recall, P_MIN)}

NextRace ==
    \/ \E t \in Threads, f \in RaceVecs, o \in RaceObservations : Call(t, f, o)
    \/ \E t \in Threads : Sum(t)
    \/ \E t \in Threads : Grad(t)
    \/ \E t \in Threads : ReadRate(t)
    \/ \E t \in Threads : LoadRecallTerm(t)
    \/ \E t \in Threads : StoreRecallTerm(t)
    \/ \E t \in Threads : LoadHalfLifeTerm(t)
    \/ \E t \in Threads : StoreHalfLifeTerm(t)
    \/ \E t \in Threads : LoadL2Target(t)
    \/ \E t \in Threads : LoadL2Operand(t)
    \/ \E t \in Threads : StoreL2Term(t)
    \/ \E t \in Threads : LoadCount(t)
    \/ \E t \in Threads : StoreCount(t)

SpecRace == InitRace /\ [][NextRace]_vars

\* ------------------------------------------------------------------------
\* properties
\* ------------------------------------------------------------------------

\* the number of times the name n occurs in a feature vector
Occurrences(features, n) == Cardinality({i \in 1..Len(features) : features[i][1] = n})

\* the recalls train_update is told
Recalls == {o.actual_recall : o \in Observations}

\* what predict returns in the state with the weights w
Prediction(w, features, delta_days, base) ==
    LET r == predict(w, features, delta_days, base) IN [p |-> r.p, h |-> r.h]

InRange(pr) ==
    /\ FGe(pr.p, P_MIN) /\ FLe(pr.p, P_MAX)
    /\ FGe(pr.h, MIN_HALF_LIFE) /\ FLe(pr.h, MAX_HALF_LIFE)

\* C1: a train_update call with elapsed time >= 0, recall in [0, 1] and a half-life
\* absent or >= 0 never raises
C1_TrainUpdateNeverRaises ==
    last.op = "train_update" => last.raised = "none"

\* C2: in every reachable state, every prediction is within [0.0001, 0.9999] and
\* [15/1440, 274]
C2_PredictInRange ==
    \A f \in FeatureVecs, d \in Deltas : InRange(Prediction(weights, f, d, FromInt(2)))

\* C3: a predict call leaves the exported weights (their keys included) and the
\* counts as they were
C3_PredictPure ==
    last.op = "predict" =>
        /\ get_weights(weights) = get_weights(last.w0)
        /\ fcounts = last.c0

\* C4 as claimed: after a train_update call the count of every name of the vector
\* is its count before plus 1, and the other counts are unchanged
C4_CountPlusOne ==
    (last.op = "train_update" /\ last.raised = "none") =>
        \A n \in Names :
            Get(fcounts, n, 0) =
                Get(last.c0, n, 0) + (IF n \in NamesOf(last.features) THEN 1 ELSE 0)

\* C4 amended: a train_update call that reaches its loop raises the count of every
\* name by the number of times the name occurs in the vector; a call that raises
\* changes no count
C4_CountPlusOccurrences ==
    last.op = "train_update" =>
        \A n \in Names :
            Get(fcounts, n, 0) =
                Get(last.c0, n, 0)
                + (IF last.raised = "none" THEN Occurrences(last.features, n) ELSE 0)

C4_Witness ==
    /\ last.op = "train_update"
    /\ last.raised = "none"
    /\ \E n \in Names :
          /\ Occurrences(last.features, n) = 2
          /\ Get(fcounts, n, 0) = Get(last.c0, n, 0) + 2
    /\ \E n \in Names :
          /\ Occurrences(last.features, n) = 0
          /\ Get(fcounts, n, 0) = Get(last.c0, n, 0)

\* C5 as claimed: every name the loop of train_update has processed is in the
\* weights and in the counts, with a count >= 1
C5_Lockstep ==
    \A n \in touched :
        /\ n \in DOMAIN weights
        /\ n \in DOMAIN fcounts
        /\ fcounts[n] >= 1

\* C5 amended: the counts hold exactly the names the loop of train_update has
\* processed, each with a count >= 1; those names are in the weights after the
\* call; predict, train_update and get_weights remove no weight entry, and after
\* load_weights(m) the weights hold the names of m only
C5_CountsOfTouched ==
    /\ DOMAIN fcounts = touched
    /\ \A n \in touched : fcounts[n] >= 1
    /\ (last.op = "train_update" /\ last.raised = "none") =>
            NamesOf(last.features) \subseteq DOMAIN weights
    /\ last.op \in {"predict", "train_update", "get_weights"} =>
            DOMAIN last.w0 \subseteq DOMAIN weights
    /\ last.op = "load_weights" => DOMAIN weights = DOMAIN last.m

C5_Witness ==
    /\ last.op = "load_weights"
    /\ \E n \in touched : n \notin DOMAIN weights /\ fcounts[n] >= 1

\* C6: load_weights of the dict get_weights has just returned leaves every
\* prediction as it was, and get_weights returns that dict again
C6_RoundTrip ==
    (last.op = "load_weights" /\ last.prev = "get_weights" /\ last.m = snapshot) =>
        /\ \A f \in FeatureVecs, d \in Deltas, b \in Bases :
              Prediction(weights, f, d, b) = Prediction(last.w0, f, d, b)
        /\ get_weights(weights) = snapshot

C6_Witness ==
    /\ last.op = "load_weights"
    /\ last.prev = "get_weights"
    /\ last.m = snapshot
    /\ \E n \in DOMAIN snapshot : ~IsZero(snapshot[n])

\* C7: after load_weights(m) get_weights returns m, every name absent from m has
\* the weight 0.0, and the counts, the hyper-parameters and so the step sizes are
\* as they were
C7_ImportReplaces ==
    last.op = "load_weights" =>
        /\ get_weights(weights) = last.m
        /\ \A n \in Names \ DOMAIN last.m : Get(weights, n, Zero) = Zero
        /\ fcounts = last.c0
        /\ hyper = last.hyper0
        /\ \A n \in Names, r \in Recalls :
              Rate(hyper, r, Get(fcounts, n, 0)) =
                  Rate(last.hyper0, r, Get(last.c0, n, 0))

C7_Witness ==
    /\ last.op = "load_weights"
    /\ \E n \in DOMAIN fcounts :
          /\ fcounts[n] >= 1
          /\ n \notin DOMAIN last.m
          /\ ~IsZero(Get(last.w0, n, Zero))
          /\ Get(weights, n, Zero) = Zero
          /\ FLt(Rate(hyper, Zero, fcounts[n]), Rate(hyper, Zero, 0))

\* C8 as claimed: predict returns the half-life halflife(features, base) and the
\* recall clip(base ^ (-delta_days / halfLife))
C8_RecallUsesBase ==
    last.op = "predict" =>
        /\ last.ret.h = halflife(last.w0, last.features, last.base)
        /\ last.ret.p = pclip(Pow(last.base, FDiv(FNeg(last.delta_days), last.ret.h)))

\* C8 amended: predict returns the half-life halflife(features, base) and the
\* recall pclip(2 ^ (-delta_days / halfLife)) whatever the base; with no features
\* and one day elapsed that is a half-life of 1 and a recall of 1/2
C8_RecallUsesTwo ==
    last.op = "predict" =>
        /\ last.ret.h = halflife(last.w0, last.features, last.base)
        /\ last.ret.p = pclip(Exp2(FDiv(FNeg(last.delta_days), last.ret.h)))
        /\ (last.features = <<>> /\ last.delta_days = FromInt(1)) =>
              (last.ret.h = FromInt(1) /\ last.ret.p = Lit(1, 2))

C8_Witness ==
    /\ last.op = "predict"
    /\ last.base = FromInt(4)
    /\ last.features = <<>>
    /\ last.delta_days = FromInt(1)
    /\ last.ret = [p |-> Lit(1, 2), h |-> FromInt(1)]

\* C10: no call lowers the count of a name, so no call raises its step size
\* lrate / ((1 + actual_recall) * sqrt(1 + count))
C10_RateNonIncreasing ==
    last.op # "init" =>
        \A n \in Names :
            /\ Get(fcounts, n, 0) >= Get(last.c0, n, 0)
            /\ \A r \in Recalls :
                  FLe(Rate(hyper, r, Get(fcounts, n, 0)),
                      Rate(last.hyper0, r, Get(last.c0, n, 0)))

C10_Witness ==
    /\ last.op = "train_update"
    /\ \E n \in Names :
          /\ Get(last.c0, n, 0) >= 1
          /\ Get(fcounts, n, 0) > Get(last.c0, n, 0)
          /\ FLt(Rate(hyper, Lit(1, 2), Get(fcounts, n, 0)),
                 Rate(hyper, Lit(1, 2), Get(last.c0, n, 0)))

\* the number of times the loops of the calls that have returned were to process n
Touches(n) ==
    LET t1 == CHOOSE t \in Threads : TRUE
        t2 == CHOOSE t \in Threads : t # t1
        of(t) == IF thr[t].pc = "done" THEN Occurrences(thr[t].features, n) ELSE 0
    IN of(t1) + of(t2)

Finished == \A t \in Threads : thr[t].pc \in {"done", "raised"}

\* the model after the call of thread t ran alone and then the call of thread u did
OneAfterTheOther(t, u) ==
    LET r1 == train_update(hyper, EmptyDict, EmptyDict, thr[t].features,
                           thr[t].delta_days, thr[t].actual_recall,
                           thr[t].actual_half_life)
        r2 == train_update(hyper, r1.w, r1.c, thr[u].features, thr[u].delta_days,
                           thr[u].actual_recall, thr[u].actual_half_life)
    IN <<r2.w, r2.c>>

\* C9: when each train_update call runs atomically, after both calls every count
\* is the number of times the name was touched and the model is the one the two
\* calls leave behind run one after the other; the witness is the lost update that
\* interleaved calls reach
C9_SerializedNoLostUpdate ==
    (serialized /\ Finished) =>
        /\ \A n \in Names : Get(fcounts, n, 0) = Touches(n)
        /\ \E t, u \in Threads : t # u /\ Model = OneAfterTheOther(t, u)

C9_Witness ==
    /\ ~serialized
    /\ Finished
    /\ \E n \in Names : Get(fcounts, n, 0) < Touches(n)

====
